---- MODULE Spec2Model ----
(***************************************************************************)
(* Swap registry, status state machine and trade executors of the          *)
(* stablecoin arbitrage bridge server.                                     *)
(*                                                                         *)
(* Time is the value of Math.floor(Date.now() / 1000), in seconds.         *)
(* Percentages (spreads, thresholds) are integers in hundredths of a       *)
(* percent: 0.3% is 30.  An address is modelled by its presence (TRUE) or  *)
(* absence (FALSE).                                                        *)
(***************************************************************************)
EXTENDS Integers, Sequences, FiniteSets, TLC

(* ------------------------------ bounds -------------------------------- *)
MaxNow == 120
TickSeconds == 60
MaxSwaps == 1
MaxInFlight == 2
MaxFrameSwaps == 2
SweepTickSeconds == 1900
MaxSweepNow == 5700

(* ------------------------- program constants -------------------------- *)
SecondsPerMinute == 60
RetentionSeconds == 3600

Chains == {"ethereum", "sui", "celo"}

(* request inputs enumerated by the model *)
FromChainInputs == {"ethereum"}
ToChainInputs == {"sui", "celo", "ethereum"}
SessionInputs == {"w1", "unknown"}
SwapAmountInputs == {-5, 50}
TimeoutMinutesInputs == {1}
MinSpreadInputs == {5}
SpreadOutcomes == {0, 10}
WalletInputs == { [evmAddress |-> TRUE,  suiAddress |-> TRUE],
                  [evmAddress |-> FALSE, suiAddress |-> TRUE] }
StepOutcomes == BOOLEAN

VARIABLES
    now,                \* Math.floor(Date.now() / 1000)
    swapStates,         \* the swapStates Map: swap id -> SwapState
    walletConnections,  \* the walletConnections Map: session id -> wallet session
    nextId,             \* number of swap ids drawn so far
    inflight,           \* handlers suspended at their await
    resp,               \* the last HTTP response sent
    env,                \* process.env, read at load time and by the endpoints
    trade,              \* the trade execution in progress or last finished
    calls,              \* collaborator calls made by that execution, in order
    scan                \* the price evaluation or ranking in progress or last done

regVars == <<now, swapStates, walletConnections, nextId, inflight, resp>>
tradeVars == <<env, trade, calls, scan>>
vars == <<now, swapStates, walletConnections, nextId, inflight, resp,
          env, trade, calls, scan>>

(* ------------------------------ helpers ------------------------------- *)
NoResp ==
    [op |-> "none", code |-> 0, error |-> "", id |-> 0, status |-> "",
     canRefund |-> "none", isExpired |-> "none", queriedAt |-> 0]

supportedPairs ==
    { [from |-> "ethereum", to |-> "sui",      via |-> "native"],
      [from |-> "sui",      to |-> "ethereum", via |-> "native"],
      [from |-> "ethereum", to |-> "celo",     via |-> "bridge"],
      [from |-> "celo",     to |-> "ethereum", via |-> "bridge"],
      [from |-> "sui",      to |-> "celo",     via |-> "bridge"],
      [from |-> "celo",     to |-> "sui",      via |-> "bridge"] }

validateWalletsForSwap(walletSession, fromChain, toChain) ==
    LET errors ==
          (IF (fromChain = "ethereum" \/ toChain = "ethereum")
                 /\ ~walletSession.evmAddress
              THEN {"Ethereum wallet required"} ELSE {})
          \cup
          (IF (fromChain = "sui" \/ toChain = "sui")
                 /\ ~walletSession.suiAddress
              THEN {"Sui wallet required"} ELSE {})
          \cup
          (IF (fromChain = "celo" \/ toChain = "celo")
                 /\ ~walletSession.celoAddress /\ ~walletSession.evmAddress
              THEN {"Celo wallet required (EVM compatible)"} ELSE {})
    IN  [valid |-> errors = {}, errors |-> errors]

getWalletAddress(walletSession, chain) ==
    IF chain = "ethereum" THEN walletSession.evmAddress
    ELSE IF chain = "sui" THEN walletSession.suiAddress
    ELSE IF chain = "celo"
         THEN walletSession.celoAddress \/ walletSession.evmAddress
    ELSE FALSE

Step(type, status, requiresSignature, chain) ==
    [type |-> type, status |-> status,
     requiresSignature |-> requiresSignature, chain |-> chain]

(* the plan built with the bridge step in a status the progress counters do
   not recognise *)
createEnhancedExecutionPlan_BridgeStepUnmarked(fromChain, toChain, walletSession, via) ==
    [ wallets |-> [fromChain |-> getWalletAddress(walletSession, fromChain),
                   toChain   |-> getWalletAddress(walletSession, toChain)],
      steps |->
        << Step("SPREAD_VERIFICATION", "COMPLETED", FALSE, "none"),
           Step(IF via = "native" THEN "WALLET_PREPARATION"
                ELSE "BRIDGE_PREPARATION", "PENDING", TRUE, fromChain),
           Step("SOURCE_SWAP", "PENDING", TRUE, fromChain),
           Step(IF via = "native" THEN "BRIDGE_TRANSFER"
                ELSE "BRIDGE_EXECUTION", "WAITING", FALSE, "none"),
           Step("DESTINATION_SWAP", "PENDING", TRUE, toChain) >> ]

createEnhancedExecutionPlan(fromChain, toChain, walletSession, via) ==
    [ wallets |-> [fromChain |-> getWalletAddress(walletSession, fromChain),
                   toChain   |-> getWalletAddress(walletSession, toChain)],
      steps |->
        IF via = "native"
        THEN << Step("SPREAD_VERIFICATION", "COMPLETED", FALSE, "none"),
                Step("WALLET_PREPARATION",  "PENDING",   TRUE,  fromChain),
                Step("SOURCE_SWAP",         "PENDING",   TRUE,  fromChain),
                Step("BRIDGE_TRANSFER",     "PENDING",   FALSE, "none"),
                Step("DESTINATION_SWAP",    "PENDING",   TRUE,  toChain) >>
        ELSE << Step("SPREAD_VERIFICATION", "COMPLETED", FALSE, "none"),
                Step("BRIDGE_PREPARATION",  "PENDING",   TRUE,  fromChain),
                Step("SOURCE_SWAP",         "PENDING",   TRUE,  fromChain),
                Step("BRIDGE_EXECUTION",    "PENDING",   FALSE, "none"),
                Step("DESTINATION_SWAP",    "PENDING",   TRUE,  toChain) >> ]

(* SwapState constructor: status CREATED, timestamps set to the clock *)
SwapState(config, t) ==
    [ fromChain |-> config.fromChain, toChain |-> config.toChain,
      amount |-> config.amount,
      enableAtomicSwap |-> config.enableAtomicSwap,
      timelock |-> config.timelock,
      status |-> "CREATED",
      updatedAt |-> t,
      executionPlan |-> [wallets |-> [fromChain |-> FALSE, toChain |-> FALSE],
                         steps |-> << >>] ]

(* SwapState.updateStatus *)
updateStatus(swapState, newStatus, t) ==
    [swapState EXCEPT !.status = newStatus, !.updatedAt = t]

B2S(b) == IF b THEN "true" ELSE "false"

(* ------------------------- trade execution ---------------------------- *)

(* request inputs and collaborator outcomes enumerated by the model *)
TradeAmountInputs == {-5, 0, 50, 100, 150, 250}
ExpectedSpreadInputs == {0, 20, 50}
MaxSlippageInputs == {100, 500}
CurrentSpreadOutcomes == {5, 39, 40}
DirectionInputs == {"eth_to_sui", "celo_to_eth", "celo_native", "bogus"}
CrossChainInputs ==
    { <<"ethereum", "celo">>, <<"sui", "ethereum">>, <<"celo", "celo">>,
      <<"ethereum", "sui", "celo">>, <<"celo", "polygon">>,
      <<"ethereum">>, <<"ethereum", "sui", "celo", "sui">> }
SwapOutcomes == {"ok", "fail", "throw"}
CallOutcomes == {"ok", "throw"}
EnvInputs ==
    [ MAX_TRADE_AMOUNT_USD : {<< >>, <<0>>, <<200>>},
      MIN_PROFIT_THRESHOLD : {<< >>},
      MAX_SLIPPAGE_PERCENT : {<< >>},
      ENABLE_REAL_TRADING  : BOOLEAN ]

DefaultEnv ==
    [ MAX_TRADE_AMOUNT_USD |-> << >>, MIN_PROFIT_THRESHOLD |-> << >>,
      MAX_SLIPPAGE_PERCENT |-> << >>, ENABLE_REAL_TRADING |-> FALSE ]

DefaultMaxAmountUSD == 100
DefaultMinProfitPercent == 30
DefaultMaxSlippagePercent == 200

(* parseFloat(process.env.X) || dflt: an unset variable parses to NaN and a
   0 is falsy, so both give the default *)
ParseFloatOr(v, dflt) ==
    IF v = << >> THEN dflt ELSE IF v[1] = 0 THEN dflt ELSE v[1]

SAFETY_LIMITS ==
    [ maxAmountUSD |-> ParseFloatOr(env.MAX_TRADE_AMOUNT_USD, DefaultMaxAmountUSD),
      minProfitPercent |-> ParseFloatOr(env.MIN_PROFIT_THRESHOLD, DefaultMinProfitPercent),
      maxSlippagePercent |-> ParseFloatOr(env.MAX_SLIPPAGE_PERCENT, DefaultMaxSlippagePercent) ]

IdleTrade ==
    [ kind |-> "none", caller |-> "none", amount |-> 0, expectedSpread |-> 0,
      direction |-> "", chains |-> << >>, dryRun |-> FALSE,
      confirmRealMoney |-> FALSE,
      maxSlippage |-> 0, currentSpread |-> -1,
      pc |-> "idle", step |-> 0, gate |-> "notreached",
      success |-> "none", error |-> "" ]


(* no evaluation in progress *)
NoScan == [op |-> "none"]

(* ------------------------------ Init ---------------------------------- *)
Init ==
    /\ now = 0
    /\ swapStates = << >>
    /\ walletConnections = << >>
    /\ nextId = 0
    /\ inflight = {}
    /\ resp = NoResp
    /\ env = DefaultEnv
    /\ trade = IdleTrade
    /\ calls = << >>
    /\ scan = NoScan

(* ----------------------------- actions -------------------------------- *)

(* the wall clock advances *)
Tick ==
    /\ UNCHANGED tradeVars
    /\ now + TickSeconds <= MaxNow
    /\ now' = now + TickSeconds
    /\ UNCHANGED <<swapStates, walletConnections, nextId, inflight, resp>>

(* POST /register: store a wallet session with at least one address *)
RegisterWallet ==
    /\ UNCHANGED tradeVars
    /\ \E sessionId \in {"w1"}, w \in WalletInputs :
        /\ w.evmAddress \/ w.suiAddress
        /\ walletConnections' =
             [s \in DOMAIN walletConnections \cup {sessionId} |->
                IF s = sessionId
                THEN [evmAddress |-> w.evmAddress, suiAddress |-> w.suiAddress,
                      celoAddress |-> FALSE]
                ELSE walletConnections[s]]
        /\ UNCHANGED <<now, swapStates, nextId, inflight, resp>>

(* the creation handler storing the swap before the spread check *)
CreateSwap_StoreThenCheck ==
    /\ UNCHANGED tradeVars
    /\ \E fromChain \in FromChainInputs, toChain \in ToChainInputs,
       sessionId \in SessionInputs :
        LET pairs == {p \in supportedPairs : p.from = fromChain /\ p.to = toChain}
            swapPair == CHOOSE p \in pairs : TRUE
            walletSession == walletConnections[sessionId]
        IN
        /\ IF pairs = {}
           THEN /\ resp' = [NoResp EXCEPT !.op = "create", !.code = 400,
                                          !.error = "Unsupported swap direction"]
                /\ UNCHANGED <<swapStates, nextId>>
           ELSE IF sessionId \notin DOMAIN walletConnections
           THEN /\ resp' = [NoResp EXCEPT !.op = "create", !.code = 400,
                                          !.error = "Wallet session not found"]
                /\ UNCHANGED <<swapStates, nextId>>
           ELSE IF ~validateWalletsForSwap(walletSession, fromChain, toChain).valid
           THEN /\ resp' = [NoResp EXCEPT !.op = "create", !.code = 400,
                                          !.error = "Wallet required"]
                /\ UNCHANGED <<swapStates, nextId>>
           ELSE \E amount \in SwapAmountInputs, enableAtomicSwap \in BOOLEAN,
                   timeoutMinutes \in TimeoutMinutesInputs,
                   minSpread \in MinSpreadInputs, spread \in SpreadOutcomes :
                LET swapId == nextId + 1
                    timelock == now + timeoutMinutes * SecondsPerMinute
                    meetsThreshold == spread >= minSpread
                    created ==
                        SwapState([fromChain |-> fromChain, toChain |-> toChain,
                                   amount |-> amount,
                                   enableAtomicSwap |-> enableAtomicSwap,
                                   timelock |-> timelock], now)
                    planned == [created EXCEPT !.executionPlan =
                                  createEnhancedExecutionPlan(fromChain, toChain,
                                      walletSession, swapPair.via)]
                    stored == updateStatus(planned, "PLAN_CREATED", now)
                IN
                /\ nextId < MaxSwaps
                /\ nextId' = nextId + 1
                /\ IF ~meetsThreshold
                   THEN /\ resp' = [NoResp EXCEPT !.op = "create", !.code = 400,
                                                  !.error = "Insufficient spread"]
                        /\ swapStates' =
                             [i \in DOMAIN swapStates \cup {swapId} |->
                                IF i = swapId THEN stored ELSE swapStates[i]]
                   ELSE /\ swapStates' =
                             [i \in DOMAIN swapStates \cup {swapId} |->
                                IF i = swapId THEN stored ELSE swapStates[i]]
                        /\ resp' = [NoResp EXCEPT !.op = "create", !.code = 200,
                                                  !.id = swapId,
                                                  !.status = stored.status]
        /\ UNCHANGED <<now, walletConnections, inflight>>

(* the creation handler putting the swap into the registry as constructed,
   before the plan is attached and the status set *)
CreateSwapWithin_StoreBeforePlan(limit) ==
    /\ UNCHANGED tradeVars
    /\ \E fromChain \in FromChainInputs, toChain \in ToChainInputs,
       sessionId \in SessionInputs :
        LET pairs == {p \in supportedPairs : p.from = fromChain /\ p.to = toChain}
            swapPair == CHOOSE p \in pairs : TRUE
            walletSession == walletConnections[sessionId]
        IN
        /\ IF pairs = {}
           THEN /\ resp' = [NoResp EXCEPT !.op = "create", !.code = 400,
                                          !.error = "Unsupported swap direction"]
                /\ UNCHANGED <<swapStates, nextId>>
           ELSE IF sessionId \notin DOMAIN walletConnections
           THEN /\ resp' = [NoResp EXCEPT !.op = "create", !.code = 400,
                                          !.error = "Wallet session not found"]
                /\ UNCHANGED <<swapStates, nextId>>
           ELSE IF ~validateWalletsForSwap(walletSession, fromChain, toChain).valid
           THEN /\ resp' = [NoResp EXCEPT !.op = "create", !.code = 400,
                                          !.error = "Wallet required"]
                /\ UNCHANGED <<swapStates, nextId>>
           ELSE \E amount \in SwapAmountInputs, enableAtomicSwap \in BOOLEAN,
                   timeoutMinutes \in TimeoutMinutesInputs,
                   minSpread \in MinSpreadInputs, spread \in SpreadOutcomes :
                LET swapId == nextId + 1
                    timelock == now + timeoutMinutes * SecondsPerMinute
                    meetsThreshold == spread >= minSpread
                    created ==
                        SwapState([fromChain |-> fromChain, toChain |-> toChain,
                                   amount |-> amount,
                                   enableAtomicSwap |-> enableAtomicSwap,
                                   timelock |-> timelock], now)
                    planned == [created EXCEPT !.executionPlan =
                                  createEnhancedExecutionPlan(fromChain, toChain,
                                      walletSession, swapPair.via)]
                    stored == updateStatus(planned, "PLAN_CREATED", now)
                IN
                /\ nextId < limit
                /\ nextId' = nextId + 1
                /\ IF ~meetsThreshold
                   THEN /\ resp' = [NoResp EXCEPT !.op = "create", !.code = 400,
                                                  !.error = "Insufficient spread"]
                        /\ UNCHANGED swapStates
                   ELSE /\ swapStates' =
                             [i \in DOMAIN swapStates \cup {swapId} |->
                                IF i = swapId THEN created ELSE swapStates[i]]
                        /\ resp' = [NoResp EXCEPT !.op = "create", !.code = 200,
                                                  !.id = swapId,
                                                  !.status = stored.status]
        /\ UNCHANGED <<now, walletConnections, inflight>>

(* POST /bidirectional-real.  The swap is put into the registry only by the
   handler's last statements, after its one await (the spread check), so no
   other handler can observe it half built: the handler is one step.
   limit bounds the number of swaps created. *)
CreateSwapWithin(limit) ==
    /\ UNCHANGED tradeVars
    /\ \E fromChain \in FromChainInputs, toChain \in ToChainInputs,
       sessionId \in SessionInputs :
        LET pairs == {p \in supportedPairs : p.from = fromChain /\ p.to = toChain}
            swapPair == CHOOSE p \in pairs : TRUE
            walletSession == walletConnections[sessionId]
        IN
        /\ IF pairs = {}
           THEN /\ resp' = [NoResp EXCEPT !.op = "create", !.code = 400,
                                          !.error = "Unsupported swap direction"]
                /\ UNCHANGED <<swapStates, nextId>>
           ELSE IF sessionId \notin DOMAIN walletConnections
           THEN /\ resp' = [NoResp EXCEPT !.op = "create", !.code = 400,
                                          !.error = "Wallet session not found"]
                /\ UNCHANGED <<swapStates, nextId>>
           ELSE IF ~validateWalletsForSwap(walletSession, fromChain, toChain).valid
           THEN /\ resp' = [NoResp EXCEPT !.op = "create", !.code = 400,
                                          !.error = "Wallet required"]
                /\ UNCHANGED <<swapStates, nextId>>
           ELSE \E amount \in SwapAmountInputs, enableAtomicSwap \in BOOLEAN,
                   timeoutMinutes \in TimeoutMinutesInputs,
                   minSpread \in MinSpreadInputs, spread \in SpreadOutcomes :
                LET swapId == nextId + 1
                    timelock == now + timeoutMinutes * SecondsPerMinute
                    meetsThreshold == spread >= minSpread
                    created ==
                        SwapState([fromChain |-> fromChain, toChain |-> toChain,
                                   amount |-> amount,
                                   enableAtomicSwap |-> enableAtomicSwap,
                                   timelock |-> timelock], now)
                    planned == [created EXCEPT !.executionPlan =
                                  createEnhancedExecutionPlan(fromChain, toChain,
                                      walletSession, swapPair.via)]
                    stored == updateStatus(planned, "PLAN_CREATED", now)
                IN
                /\ nextId < limit
                /\ nextId' = nextId + 1
                /\ IF ~meetsThreshold
                   THEN /\ resp' = [NoResp EXCEPT !.op = "create", !.code = 400,
                                                  !.error = "Insufficient spread"]
                        /\ UNCHANGED swapStates
                   ELSE /\ swapStates' =
                             [i \in DOMAIN swapStates \cup {swapId} |->
                                IF i = swapId THEN stored ELSE swapStates[i]]
                        /\ resp' = [NoResp EXCEPT !.op = "create", !.code = 200,
                                                  !.id = swapId,
                                                  !.status = stored.status]
        /\ UNCHANGED <<now, walletConnections, inflight>>

CreateSwap == CreateSwapWithin(MaxSwaps)

(* the status handler taking a swap for expired from the timelock second
   itself *)
StatusBeginAmong_ExpireAtTimelock(ids) ==
    /\ UNCHANGED tradeVars
    /\ \E swapId \in ids :
        IF swapId \notin DOMAIN swapStates
        THEN /\ resp' = [NoResp EXCEPT !.op = "status", !.code = 404,
                                       !.error = "Swap not found",
                                       !.id = swapId, !.queriedAt = now]
             /\ UNCHANGED <<now, swapStates, walletConnections, nextId, inflight>>
        ELSE LET swapState == swapStates[swapId]
                 currentTime == now
                 isExpired == currentTime >= swapState.timelock
             IN /\ Cardinality(inflight) < MaxInFlight
                /\ swapStates' =
                     IF isExpired /\ swapState.status # "EXPIRED"
                     THEN [swapStates EXCEPT ![swapId] =
                             updateStatus(swapState, "EXPIRED", now)]
                     ELSE swapStates
                /\ inflight' = inflight \cup
                     {[kind |-> "status", id |-> swapId,
                       currentTime |-> currentTime, isExpired |-> isExpired]}
                /\ UNCHANGED <<now, walletConnections, nextId, resp>>

(* the status handler expiring every swap of the registry whose timelock
   has passed, not only the queried one *)
StatusBeginAmong_ExpireAll(ids) ==
    /\ UNCHANGED tradeVars
    /\ \E swapId \in ids :
        IF swapId \notin DOMAIN swapStates
        THEN /\ resp' = [NoResp EXCEPT !.op = "status", !.code = 404,
                                       !.error = "Swap not found",
                                       !.id = swapId, !.queriedAt = now]
             /\ UNCHANGED <<now, swapStates, walletConnections, nextId, inflight>>
        ELSE LET swapState == swapStates[swapId]
                 currentTime == now
                 isExpired == currentTime > swapState.timelock
             IN /\ Cardinality(inflight) < MaxInFlight
                /\ swapStates' =
                     [i \in DOMAIN swapStates |->
                        IF now > swapStates[i].timelock
                              /\ swapStates[i].status # "EXPIRED"
                        THEN updateStatus(swapStates[i], "EXPIRED", now)
                        ELSE swapStates[i]]
                /\ inflight' = inflight \cup
                     {[kind |-> "status", id |-> swapId,
                       currentTime |-> currentTime, isExpired |-> isExpired]}
                /\ UNCHANGED <<now, walletConnections, nextId, resp>>

(* GET /status-real/:swapId (enhanced variant), up to the awaited spread
   fetch: progress counters, then the lazy expiry check,
   for a query on one of the swap ids ids *)
StatusBeginAmong(ids) ==
    /\ UNCHANGED tradeVars
    /\ \E swapId \in ids :
        IF swapId \notin DOMAIN swapStates
        THEN /\ resp' = [NoResp EXCEPT !.op = "status", !.code = 404,
                                       !.error = "Swap not found",
                                       !.id = swapId, !.queriedAt = now]
             /\ UNCHANGED <<now, swapStates, walletConnections, nextId, inflight>>
        ELSE LET swapState == swapStates[swapId]
                 currentTime == now
                 isExpired == currentTime > swapState.timelock
             IN /\ Cardinality(inflight) < MaxInFlight
                /\ swapStates' =
                     IF isExpired /\ swapState.status # "EXPIRED"
                     THEN [swapStates EXCEPT ![swapId] =
                             updateStatus(swapState, "EXPIRED", now)]
                     ELSE swapStates
                /\ inflight' = inflight \cup
                     {[kind |-> "status", id |-> swapId,
                       currentTime |-> currentTime, isExpired |-> isExpired]}
                /\ UNCHANGED <<now, walletConnections, nextId, resp>>

StatusBegin == StatusBeginAmong(1..MaxSwaps)

(* GET /status-real/:swapId (enhanced variant), after the spread fetch
   returned or threw: the response is built from the stored state as it is
   now and from the isExpired computed before the await *)
StatusRespond ==
    /\ UNCHANGED tradeVars
    /\ \E r \in inflight :
        /\ r.kind = "status"
        /\ inflight' = inflight \ {r}
        /\ LET swapState == swapStates[r.id]
           IN resp' = [NoResp EXCEPT
                  !.op = "status", !.code = 200, !.id = r.id,
                  !.status = swapState.status,
                  !.isExpired = B2S(r.isExpired),
                  !.canRefund = IF swapState.enableAtomicSwap
                                THEN B2S(r.isExpired \/ swapState.status = "FAILED")
                                ELSE "none",
                  !.queriedAt = r.currentTime]
        /\ UNCHANGED <<now, swapStates, walletConnections, nextId>>

(* GET /status-real/:swapId (basic variant): no expiry check, no await *)
StatusBasic ==
    /\ UNCHANGED tradeVars
    /\ \E swapId \in 1..MaxSwaps :
        /\ resp' = IF swapId \notin DOMAIN swapStates
                   THEN [NoResp EXCEPT !.op = "statusBasic", !.code = 404,
                                       !.error = "Swap not found",
                                       !.id = swapId, !.queriedAt = now]
                   ELSE [NoResp EXCEPT !.op = "statusBasic", !.code = 200,
                                       !.id = swapId,
                                       !.status = swapStates[swapId].status,
                                       !.queriedAt = now]
        /\ UNCHANGED <<now, swapStates, walletConnections, nextId, inflight>>

(* recordStepResult(stepIndex, success): the step-completion callback of the
   state machine.  Steps run strictly in order, so stepIndex is the first
   PENDING step; success of the last step completes the swap, a failure
   fails it and leaves the later steps PENDING. *)
FirstPending(steps) ==
    CHOOSE i \in DOMAIN steps :
        /\ steps[i].status = "PENDING"
        /\ \A j \in DOMAIN steps : steps[j].status = "PENDING" => i <= j

RecordStepResult ==
    /\ UNCHANGED tradeVars
    /\ \E swapId \in DOMAIN swapStates, success \in StepOutcomes :
        LET swapState == swapStates[swapId]
            steps == swapState.executionPlan.steps
        IN /\ swapState.status \in {"PLAN_CREATED", "IN_PROGRESS"}
           /\ \E i \in DOMAIN steps : steps[i].status = "PENDING"
           /\ LET k == FirstPending(steps)
                  marked == [swapState EXCEPT
                               !.executionPlan.steps[k].status =
                                   IF success THEN "COMPLETED" ELSE "FAILED"]
              IN swapStates' = [swapStates EXCEPT ![swapId] =
                   updateStatus(marked,
                       IF ~success THEN "FAILED"
                       ELSE IF k = Len(steps) THEN "COMPLETED"
                       ELSE "IN_PROGRESS",
                       now)]
           /\ UNCHANGED <<now, walletConnections, nextId, inflight, resp>>

Next ==
    \/ Tick
    \/ RegisterWallet
    \/ CreateSwap
    \/ StatusBegin
    \/ StatusRespond
    \/ StatusBasic
    \/ RecordStepResult

Spec == Init /\ [][Next]_vars

(* the swap lifecycle alone: creation and step reports, no status query *)
NextPlan ==
    \/ Tick
    \/ RegisterWallet
    \/ CreateSwap
    \/ RecordStepResult

PlanSpec == Init /\ [][NextPlan]_vars

(* the pairs of the earlier POST /bidirectional-real *)
basicSupportedPairs ==
    { [from |-> "ethereum", to |-> "sui",      via |-> "native"],
      [from |-> "sui",      to |-> "ethereum", via |-> "native"] }

BasicChainInputs == {"ethereum", "sui", "celo"}

(* POST /bidirectional-real, earlier variant: the wallet checks are made on
   the direction ethereum -> sui only, and the plan takes its two wallet
   addresses from the session as they are *)
CreateSwapBasic ==
    /\ UNCHANGED tradeVars
    /\ \E fromChain \in BasicChainInputs, toChain \in BasicChainInputs,
       sessionId \in SessionInputs :
        LET pairs == {p \in basicSupportedPairs :
                          p.from = fromChain /\ p.to = toChain}
            walletSession == walletConnections[sessionId]
        IN
        /\ IF pairs = {}
           THEN /\ resp' = [NoResp EXCEPT !.op = "create", !.code = 400,
                                          !.error = "Unsupported swap direction"]
                /\ UNCHANGED <<swapStates, nextId>>
           ELSE IF sessionId \notin DOMAIN walletConnections
           THEN /\ resp' = [NoResp EXCEPT !.op = "create", !.code = 400,
                                          !.error = "Wallet session not found"]
                /\ UNCHANGED <<swapStates, nextId>>
           ELSE IF \/ fromChain = "ethereum" /\ ~walletSession.evmAddress
                   \/ toChain = "sui" /\ ~walletSession.suiAddress
           THEN /\ resp' = [NoResp EXCEPT !.op = "create", !.code = 400,
                                          !.error = "Wallet required"]
                /\ UNCHANGED <<swapStates, nextId>>
           ELSE \E amount \in SwapAmountInputs, enableAtomicSwap \in BOOLEAN,
                   timeoutMinutes \in TimeoutMinutesInputs,
                   minSpread \in MinSpreadInputs, spread \in SpreadOutcomes :
                LET swapId == nextId + 1
                    timelock == now + timeoutMinutes * SecondsPerMinute
                    meetsThreshold == spread >= minSpread
                    created ==
                        SwapState([fromChain |-> fromChain, toChain |-> toChain,
                                   amount |-> amount,
                                   enableAtomicSwap |-> enableAtomicSwap,
                                   timelock |-> timelock], now)
                    executionPlan ==
                        [ wallets |->
                            [fromChain |-> IF fromChain = "ethereum"
                                           THEN walletSession.evmAddress
                                           ELSE walletSession.suiAddress,
                             toChain   |-> IF toChain = "ethereum"
                                           THEN walletSession.evmAddress
                                           ELSE walletSession.suiAddress],
                          steps |->
                            << Step("SPREAD_VERIFICATION", "COMPLETED", FALSE, "none"),
                               Step("WALLET_PREPARATION",  "PENDING",   TRUE,  fromChain),
                               Step("SOURCE_SWAP",         "PENDING",   TRUE,  fromChain),
                               Step("BRIDGE_TRANSFER",     "PENDING",   FALSE, "none"),
                               Step("DESTINATION_SWAP",    "PENDING",   TRUE,  toChain) >> ]
                    planned == [created EXCEPT !.executionPlan = executionPlan]
                    stored == updateStatus(planned, "PLAN_CREATED", now)
                IN
                /\ nextId < MaxSwaps
                /\ nextId' = nextId + 1
                /\ IF ~meetsThreshold
                   THEN /\ resp' = [NoResp EXCEPT !.op = "create", !.code = 400,
                                                  !.error = "Insufficient spread"]
                        /\ UNCHANGED swapStates
                   ELSE /\ swapStates' =
                             [i \in DOMAIN swapStates \cup {swapId} |->
                                IF i = swapId THEN stored ELSE swapStates[i]]
                        /\ resp' = [NoResp EXCEPT !.op = "create", !.code = 200,
                                                  !.id = swapId,
                                                  !.status = stored.status]
        /\ UNCHANGED <<now, walletConnections, inflight>>

(* the wall clock advances between two runs of the cleanup timer *)
SweepTick ==
    /\ UNCHANGED tradeVars
    /\ now + SweepTickSeconds <= MaxSweepNow
    /\ now' = now + SweepTickSeconds
    /\ UNCHANGED <<swapStates, walletConnections, nextId, inflight, resp>>

(* the swap ids the cleanup callback deletes: its loop over the registry,
   which would delete the swaps with now > timelock + RetentionSeconds, is
   commented out, so expiredCount stays 0 and nothing is deleted *)
CleanupDeleted == {}

(* the setInterval callback of startServer *)
CleanupSweep ==
    /\ UNCHANGED tradeVars
    /\ swapStates' = [id \in DOMAIN swapStates \ CleanupDeleted |-> swapStates[id]]
    /\ UNCHANGED <<now, walletConnections, nextId, inflight, resp>>

(* the registry under creation, status queries and the periodic cleanup;
   the timer keeps firing and the clock keeps advancing *)
NextSweep ==
    \/ SweepTick
    \/ RegisterWallet
    \/ CreateSwap
    \/ StatusBegin
    \/ StatusRespond
    \/ CleanupSweep

SweepSpec ==
    /\ Init
    /\ [][NextSweep]_vars
    /\ WF_vars(SweepTick)
    /\ WF_vars(StatusRespond)
    /\ WF_vars(CleanupSweep)

(* the server once a session with both wallets has been registered *)
InitFrame ==
    /\ now = 0
    /\ swapStates = << >>
    /\ walletConnections =
         [s \in {"w1"} |-> [evmAddress |-> TRUE, suiAddress |-> TRUE,
                            celoAddress |-> FALSE]]
    /\ nextId = 0
    /\ inflight = {}
    /\ resp = NoResp
    /\ env = DefaultEnv
    /\ trade = IdleTrade
    /\ calls = << >>
    /\ scan = NoScan

(* POST /bidirectional-real for requests of 50 on ethereum -> sui with the
   atomic components enabled *)
CreateFrameSwap ==
    /\ CreateSwapWithin(MaxFrameSwaps)
    /\ \A id \in DOMAIN swapStates' :
          /\ swapStates'[id].amount = 50
          /\ swapStates'[id].enableAtomicSwap
          /\ swapStates'[id].toChain = "sui"

(* the registry with several swaps: creations and status queries, whose
   two halves interleave freely *)
NextFrame ==
    \/ Tick
    \/ CreateFrameSwap
    \/ StatusBeginAmong(1..MaxFrameSwaps)
    \/ StatusRespond

FrameSpec == InitFrame /\ [][NextFrame]_vars

(* wallet registration and both variants of the creation handler *)
NextCreate ==
    \/ Tick
    \/ RegisterWallet
    \/ CreateSwap
    \/ CreateSwapBasic

CreateSpec == Init /\ [][NextCreate]_vars

(* --------------------- trade execution: operations -------------------- *)

supportedDirections ==
    {"eth_to_sui", "sui_to_eth", "eth_to_celo", "celo_to_eth",
     "sui_to_celo", "celo_to_sui", "celo_native"}

(* the chains of step 1 and step 2 in each branch of the executor's dispatch
   on direction; << >> is the final else branch (unsupported direction) *)
DirectionChains(direction) ==
    CASE direction = "eth_to_sui"  -> <<"ethereum", "sui">>
      [] direction = "sui_to_eth"  -> <<"sui", "ethereum">>
      [] direction = "eth_to_celo" -> <<"ethereum", "celo">>
      [] direction = "celo_to_eth" -> <<"celo", "ethereum">>
      [] direction = "sui_to_celo" -> <<"sui", "celo">>
      [] direction = "celo_to_sui" -> <<"celo", "sui">>
      [] OTHER -> << >>

Finished(t, success, error) ==
    [t EXCEPT !.pc = "done", !.success = B2S(success), !.error = error]

(* the validations with the amount limit made exclusive *)
RealTradeGate_LimitExclusive(amount, expectedSpread) ==
    IF amount >= SAFETY_LIMITS.maxAmountUSD THEN "AmountExceedsLimit"
    ELSE IF expectedSpread < SAFETY_LIMITS.minProfitPercent THEN "SpreadBelowMinimum"
    ELSE "ok"

(* the validations with the spread rule tested before the amount rule *)
RealTradeGate_SpreadFirst(amount, expectedSpread) ==
    IF expectedSpread < SAFETY_LIMITS.minProfitPercent THEN "SpreadBelowMinimum"
    ELSE IF amount > SAFETY_LIMITS.maxAmountUSD THEN "AmountExceedsLimit"
    ELSE "ok"

(* executeRealArbitrageTrade: the safety validations *)
RealTradeGate(amount, expectedSpread) ==
    IF amount > SAFETY_LIMITS.maxAmountUSD THEN "AmountExceedsLimit"
    ELSE IF expectedSpread < SAFETY_LIMITS.minProfitPercent THEN "SpreadBelowMinimum"
    ELSE "ok"

(* executeEnhancedCrossChainArbitrage: the safety validations *)
CrossChainGate(amount, chains) ==
    IF amount > SAFETY_LIMITS.maxAmountUSD THEN "AmountExceedsLimit"
    ELSE IF Len(chains) < 2 \/ Len(chains) > 3 THEN "InvalidRoute"
    ELSE "ok"

(* the endpoint's own limit, parsed from the environment on every request *)
EndpointAmountExceeds(amount) ==
    amount > ParseFloatOr(env.MAX_TRADE_AMOUNT_USD, DefaultMaxAmountUSD)

(* executeRealArbitrageTrade from its entry to its first await *)
BeginRealTrade(caller, amount, direction, expectedSpread) ==
    LET t == [IdleTrade EXCEPT !.kind = "real", !.caller = caller,
                               !.amount = amount, !.direction = direction,
                               !.expectedSpread = expectedSpread,
                               !.chains = DirectionChains(direction),
                               !.gate = RealTradeGate(amount, expectedSpread)]
    IN IF t.gate # "ok" THEN Finished(t, FALSE, t.gate)
       ELSE [t EXCEPT !.pc = "getWalletBalances"]

(* the first swap of a route is issued if its chain has a swap function;
   otherwise the dispatch throws (or leaves the result undefined, and reading
   its success field throws) *)
IssueSwap(t, k) ==
    IF t.chains[k] \in Chains THEN [t EXCEPT !.pc = "swap", !.step = k]
    ELSE Finished(t, FALSE, "UnsupportedChain")

(* the code after a swap call, going on to the next step without testing
   the result of this one *)
AfterSwap_IgnoreFailure(t, outcome) ==
    IF outcome = "throw" THEN Finished(t, FALSE, "StepExecutionFailed")
    ELSE IF t.step < Len(t.chains) THEN IssueSwap(t, t.step + 1)
    ELSE IF t.kind = "real"
    THEN IF outcome = "ok" THEN [t EXCEPT !.pc = "finalBalances"]
         ELSE Finished(t, FALSE, "StepExecutionFailed")
    ELSE [t EXCEPT !.pc = "finalBalances"]

(* the code after a swap call, trying a failed step a second time *)
AfterSwap_RetryOnce(t, outcome) ==
    IF outcome = "throw" THEN Finished(t, FALSE, "StepExecutionFailed")
    ELSE IF outcome = "fail"
            /\ ~\E i \in DOMAIN calls :
                   calls[i].cap = "swap" /\ calls[i].step = t.step
    THEN [t EXCEPT !.pc = "swap"]
    ELSE IF t.step < Len(t.chains)
    THEN IF outcome = "ok" THEN IssueSwap(t, t.step + 1)
         ELSE Finished(t, FALSE, "StepExecutionFailed")
    ELSE IF t.kind = "real"
    THEN IF outcome = "ok" THEN [t EXCEPT !.pc = "finalBalances"]
         ELSE Finished(t, FALSE, "StepExecutionFailed")
    ELSE [t EXCEPT !.pc = "finalBalances"]

(* the code that follows the swap call of step t.step *)
AfterSwap(t, outcome) ==
    IF outcome = "throw" THEN Finished(t, FALSE, "StepExecutionFailed")
    ELSE IF t.step < Len(t.chains)
    THEN IF outcome = "ok" THEN IssueSwap(t, t.step + 1)
         ELSE Finished(t, FALSE, "StepExecutionFailed")
    ELSE IF t.kind = "real"
    THEN IF outcome = "ok" THEN [t EXCEPT !.pc = "finalBalances"]
         ELSE Finished(t, FALSE, "StepExecutionFailed")
    ELSE [t EXCEPT !.pc = "finalBalances"]

(* the endpoint without its simulation branch: a dry run is executed *)
ExecuteArbitrageEndpoint_DryRunExecutes ==
    /\ UNCHANGED regVars
    /\ trade.pc = "idle"
    /\ \E amount \in TradeAmountInputs, direction \in DirectionInputs,
          expectedSpread \in ExpectedSpreadInputs,
          maxSlippage \in MaxSlippageInputs,
          confirmRealMoney \in BOOLEAN, dryRun \in BOOLEAN :
        LET req == [IdleTrade EXCEPT !.kind = "real", !.caller = "endpoint",
                                     !.amount = amount, !.direction = direction,
                                     !.expectedSpread = expectedSpread,
                                     !.maxSlippage = maxSlippage,
                                     !.dryRun = dryRun,
                                     !.confirmRealMoney = confirmRealMoney]
        IN
        /\ calls' = << >>
        /\ trade' =
             IF amount = 0 \/ expectedSpread = 0
             THEN Finished(req, FALSE, "MissingRequiredFields")
             ELSE IF direction \notin supportedDirections
             THEN Finished(req, FALSE, "UnsupportedDirection")
             ELSE IF ~confirmRealMoney /\ ~dryRun
             THEN Finished(req, FALSE, "MustConfirm")
             ELSE IF ~dryRun /\ ~env.ENABLE_REAL_TRADING
             THEN Finished(req, FALSE, "RealTradingNotEnabled")
             ELSE IF EndpointAmountExceeds(amount)
             THEN Finished([req EXCEPT !.gate = "AmountExceedsLimit"],
                           FALSE, "AmountExceedsLimit")
             ELSE [BeginRealTrade("endpoint", amount, direction, expectedSpread)
                     EXCEPT !.maxSlippage = maxSlippage, !.dryRun = dryRun,
                            !.confirmRealMoney = confirmRealMoney]
    /\ UNCHANGED <<env, scan>>

(* POST /execute-arbitrage *)
ExecuteArbitrageEndpoint ==
    /\ UNCHANGED regVars
    /\ trade.pc = "idle"
    /\ \E amount \in TradeAmountInputs, direction \in DirectionInputs,
          expectedSpread \in ExpectedSpreadInputs,
          maxSlippage \in MaxSlippageInputs,
          confirmRealMoney \in BOOLEAN, dryRun \in BOOLEAN :
        LET req == [IdleTrade EXCEPT !.kind = "real", !.caller = "endpoint",
                                     !.amount = amount, !.direction = direction,
                                     !.expectedSpread = expectedSpread,
                                     !.maxSlippage = maxSlippage,
                                     !.dryRun = dryRun,
                                     !.confirmRealMoney = confirmRealMoney]
        IN
        /\ calls' = << >>
        /\ trade' =
             IF amount = 0 \/ expectedSpread = 0
             THEN Finished(req, FALSE, "MissingRequiredFields")
             ELSE IF direction \notin supportedDirections
             THEN Finished(req, FALSE, "UnsupportedDirection")
             ELSE IF ~confirmRealMoney /\ ~dryRun
             THEN Finished(req, FALSE, "MustConfirm")
             ELSE IF ~dryRun /\ ~env.ENABLE_REAL_TRADING
             THEN Finished(req, FALSE, "RealTradingNotEnabled")
             ELSE IF EndpointAmountExceeds(amount)
             THEN Finished([req EXCEPT !.gate = "AmountExceedsLimit"],
                           FALSE, "AmountExceedsLimit")
             ELSE IF dryRun
             THEN Finished([req EXCEPT !.gate = "ok"], TRUE, "")
             ELSE [BeginRealTrade("endpoint", amount, direction, expectedSpread)
                     EXCEPT !.maxSlippage = maxSlippage,
                            !.confirmRealMoney = confirmRealMoney]
    /\ UNCHANGED <<env, scan>>

(* executeRealArbitrageTrade(tradeParams), called as the exported function *)
ExecuteRealArbitrageTrade ==
    /\ UNCHANGED regVars
    /\ trade.pc = "idle"
    /\ \E amount \in TradeAmountInputs, direction \in DirectionInputs,
          expectedSpread \in ExpectedSpreadInputs,
          maxSlippage \in MaxSlippageInputs :
        /\ calls' = << >>
        /\ trade' = [BeginRealTrade("direct", amount, direction, expectedSpread)
                       EXCEPT !.maxSlippage = maxSlippage]
    /\ UNCHANGED <<env, scan>>

(* POST /execute-enhanced-arbitrage.  The routes file does not import
   executeEnhancedCrossChainArbitrage, so a real (not dry-run) request that
   passes the validations ends in the handler's catch with a 500. *)
ExecuteEnhancedArbitrageEndpoint ==
    /\ UNCHANGED regVars
    /\ trade.pc = "idle"
    /\ \E amount \in TradeAmountInputs, chains \in CrossChainInputs,
          expectedSpread \in ExpectedSpreadInputs,
          maxSlippage \in MaxSlippageInputs, tokensMatch \in BOOLEAN,
          confirmRealMoney \in BOOLEAN, dryRun \in BOOLEAN :
        LET req == [IdleTrade EXCEPT !.kind = "cross", !.caller = "endpoint",
                                     !.amount = amount, !.chains = chains,
                                     !.expectedSpread = expectedSpread,
                                     !.maxSlippage = maxSlippage,
                                     !.dryRun = dryRun,
                                     !.confirmRealMoney = confirmRealMoney]
        IN
        /\ calls' = << >>
        /\ trade' =
             IF Len(chains) < 2 \/ Len(chains) > 3
             THEN Finished(req, FALSE, "InvalidRoute")
             ELSE IF ~tokensMatch
             THEN Finished(req, FALSE, "TokensMismatch")
             ELSE IF \E i \in DOMAIN chains : chains[i] \notin Chains
             THEN Finished(req, FALSE, "UnsupportedChain")
             ELSE IF ~confirmRealMoney /\ ~dryRun
             THEN Finished(req, FALSE, "MustConfirm")
             ELSE IF EndpointAmountExceeds(amount)
             THEN Finished([req EXCEPT !.gate = "AmountExceedsLimit"],
                           FALSE, "AmountExceedsLimit")
             ELSE IF dryRun
             THEN Finished([req EXCEPT !.gate = "ok"], TRUE, "")
             ELSE Finished(req, FALSE, "ReferenceError")
    /\ UNCHANGED <<env, scan>>

(* executeEnhancedCrossChainArbitrage(tradeParams), up to its first await *)
ExecuteEnhancedCrossChainArbitrage ==
    /\ UNCHANGED regVars
    /\ trade.pc = "idle"
    /\ \E amount \in TradeAmountInputs, chains \in CrossChainInputs,
          expectedSpread \in ExpectedSpreadInputs,
          maxSlippage \in MaxSlippageInputs :
        LET t == [IdleTrade EXCEPT !.kind = "cross", !.caller = "direct",
                                   !.amount = amount, !.chains = chains,
                                   !.expectedSpread = expectedSpread,
                                   !.maxSlippage = maxSlippage,
                                   !.gate = CrossChainGate(amount, chains)]
        IN
        /\ calls' = << >>
        /\ trade' = IF t.gate # "ok" THEN Finished(t, FALSE, t.gate)
                    ELSE IssueSwap(t, 1)
    /\ UNCHANGED <<env, scan>>

(* the initial getWalletBalances() of executeRealArbitrageTrade returns *)
WalletBalancesReturn ==
    /\ UNCHANGED regVars
    /\ trade.pc = "getWalletBalances"
    /\ \E outcome \in CallOutcomes :
        /\ calls' = Append(calls, [cap |-> "getWalletBalances", step |-> 0,
                                   chain |-> "", result |-> outcome])
        /\ trade' = IF outcome = "throw"
                    THEN Finished(trade, FALSE, "CollaboratorFailed")
                    ELSE [trade EXCEPT !.pc = "getCurrentDEXPrices"]
    /\ UNCHANGED <<env, scan>>

(* getCurrentDEXPrices() returns (it catches its own errors); then the spread
   re-check and the dispatch on direction *)
DEXPricesReturn ==
    /\ UNCHANGED regVars
    /\ trade.pc = "getCurrentDEXPrices"
    /\ \E spread \in CurrentSpreadOutcomes :
        /\ calls' = Append(calls, [cap |-> "getCurrentDEXPrices", step |-> 0,
                                   chain |-> "", result |-> "ok"])
        /\ LET t == [trade EXCEPT !.currentSpread = spread]
           IN trade' = IF 10 * spread < 8 * trade.expectedSpread
                       THEN Finished(t, FALSE, "SpreadDegraded")
                       ELSE IF trade.chains = << >>
                       THEN Finished(t, FALSE, "UnsupportedDirection")
                       ELSE IssueSwap(t, 1)
    /\ UNCHANGED <<env, scan>>

(* the collaborator swap of step trade.step returns *)
SwapReturn ==
    /\ UNCHANGED regVars
    /\ trade.pc = "swap"
    /\ \E outcome \in SwapOutcomes :
        /\ calls' = Append(calls, [cap |-> "swap", step |-> trade.step,
                                   chain |-> trade.chains[trade.step],
                                   result |-> outcome])
        /\ trade' = AfterSwap(trade, outcome)
    /\ UNCHANGED <<env, scan>>

(* the final getWalletBalances() returns and the executor reports *)
FinalBalancesReturn ==
    /\ UNCHANGED regVars
    /\ trade.pc = "finalBalances"
    /\ \E outcome \in CallOutcomes :
        /\ calls' = Append(calls, [cap |-> "getWalletBalances", step |-> 0,
                                   chain |-> "", result |-> outcome])
        /\ trade' = IF outcome = "throw"
                    THEN Finished(trade, FALSE, "CollaboratorFailed")
                    ELSE Finished(trade, TRUE, "")
    /\ UNCHANGED <<env, scan>>

(* the execution is over: its result has been returned to the caller and its
   locals are gone; the next request starts afresh *)
TradeReturn ==
    /\ UNCHANGED regVars
    /\ trade.pc = "done"
    /\ trade' = IdleTrade
    /\ calls' = << >>
    /\ UNCHANGED <<env, scan>>

InitTrade ==
    /\ now = 0
    /\ swapStates = << >>
    /\ walletConnections = << >>
    /\ nextId = 0
    /\ inflight = {}
    /\ resp = NoResp
    /\ env \in EnvInputs
    /\ trade = IdleTrade
    /\ calls = << >>
    /\ scan = NoScan

NextTrade ==
    \/ ExecuteArbitrageEndpoint
    \/ ExecuteRealArbitrageTrade
    \/ ExecuteEnhancedArbitrageEndpoint
    \/ ExecuteEnhancedCrossChainArbitrage
    \/ WalletBalancesReturn
    \/ DEXPricesReturn
    \/ SwapReturn
    \/ FinalBalancesReturn
    \/ TradeReturn

TradeSpec == InitTrade /\ [][NextTrade]_vars

(* ------------------- price evaluation and ranking --------------------- *)
(* Prices are integers in units of 0.0001 (10000 is 1.0000); spreads and
   profits of this section are in units of 0.0001 percent (3000 is 0.3%),
   values printed with toFixed(3) in units of 0.001 percent. *)

MaxOpportunities == 3

SpreadScale == 1000000
EthereumFee == 3000
TriangularFee == 2000
CeloNativeFee == 500
StandardFee == 1000
ScoreUnit == 1000

(* what a price provider gives for one chain: a price, or 0 when it fails *)
PriceOutcomes == {0, 9990, 10012, 10050}
(* checkCrossChainSpread draws both prices within 1.0000 +- 0.0005 *)
PriceInputs == {9996, 10000, 10004}
CheckMinSpreadInputs == {500, 800}
MinProfitInputs == {3000, 5200}
QueryFlagInputs == {"absent", "false", ""}

(* the pair configurations scanned by scanForArbitrageOpportunities *)
crossChainPairs ==
    { [chains |-> <<"ethereum", "celo">>,        type |-> "bridge_arbitrage"],
      [chains |-> <<"ethereum", "celo">>,        type |-> "direct_arbitrage"],
      [chains |-> <<"sui", "celo">>,             type |-> "bridge_arbitrage"],
      [chains |-> <<"ethereum", "sui", "celo">>, type |-> "triangular"],
      [chains |-> <<"ethereum", "celo", "sui">>, type |-> "triangular"] }

(* opportunities as scanForArbitrageOpportunities returns them *)
OpportunityInputs ==
    { [type |-> t.type, arbitrageType |-> t.arbitrageType,
       chains |-> t.chains, spread |-> sp] :
        t \in { [type |-> "cross_chain_2", arbitrageType |-> "",
                 chains |-> <<"ethereum", "sui">>],
                [type |-> "cross_chain_enhanced", arbitrageType |-> "bridge_arbitrage",
                 chains |-> <<"ethereum", "celo">>],
                [type |-> "cross_chain_enhanced", arbitrageType |-> "direct_arbitrage",
                 chains |-> <<"ethereum", "celo">>],
                [type |-> "triangular", arbitrageType |-> "triangular",
                 chains |-> <<"ethereum", "sui", "celo">>],
                [type |-> "celo_native", arbitrageType |-> "",
                 chains |-> <<"celo">>] },
        sp \in {5000, 6000} }

(* Number.prototype.toFixed on a non-negative quotient n / d: the nearest
   integer number of units *)
RoundDiv(n, d) == (2 * n + d) \div (2 * d)

Abs(x) == IF x < 0 THEN -x ELSE x

Includes(seq, x) == \E i \in DOMAIN seq : seq[i] = x

(* Array.prototype.sort with the comparator (a, b) => b.key - a.key: a
   stable sort into descending order of key *)
RECURSIVE InsertDesc(_, _)
InsertDesc(sorted, x) ==
    IF sorted = << >> THEN << x >>
    ELSE IF Head(sorted).key >= x.key
    THEN << Head(sorted) >> \o InsertDesc(Tail(sorted), x)
    ELSE << x >> \o sorted

RECURSIVE SortDesc(_)
SortDesc(seq) ==
    IF seq = << >> THEN << >>
    ELSE InsertDesc(SortDesc(SubSeq(seq, 1, Len(seq) - 1)), seq[Len(seq)])

(* the prices getChainPrice falls back to when the provider of a chain
   fails: getCurrentDEXPrices answers its fallback record for ethereum and
   sui, and the catch of getChainPrice fabricates a price near 1.0 for celo *)
FallbackPrices(chain) ==
    IF chain = "ethereum" THEN {10000}
    ELSE IF chain = "sui" THEN {10005}
    ELSE {9995, 10005}

(* getChainPrice(chain, token), given what the provider answered *)
getChainPrice(outcome, fallback) ==
    IF outcome = 0 THEN fallback ELSE outcome

(* scanCrossChainPair(pairConfig), given the price obtained for each chain *)
scanCrossChainPair(pairConfig, prices) ==
    LET chains == pairConfig.chains
        priceEntries == SortDesc([i \in DOMAIN chains |->
                                    [chain |-> chains[i], key |-> prices[chains[i]]]])
        highestChain == priceEntries[1].chain
        lowestChain == priceEntries[Len(priceEntries)].chain
        highestPrice == priceEntries[1].key
        lowestPrice == priceEntries[Len(priceEntries)].key
    IN IF (highestPrice - lowestPrice) * SpreadScale
             >= SAFETY_LIMITS.minProfitPercent * 100 * lowestPrice
       THEN [found |-> TRUE,
             spread |-> RoundDiv((highestPrice - lowestPrice) * SpreadScale, lowestPrice),
             buyChain |-> lowestChain, sellChain |-> highestChain]
       ELSE [found |-> FALSE, spread |-> 0, buyChain |-> "", sellChain |-> ""]

(* checkCrossChainSpread(fromChain, toChain, fromToken, toToken, minSpread),
   given the two prices it drew *)
checkCrossChainSpread(sourcePrice, destPrice, minSpread) ==
    [ spread |-> RoundDiv(Abs(sourcePrice - destPrice) * SpreadScale, destPrice),
      meetsThreshold |->
          Abs(sourcePrice - destPrice) * SpreadScale >= minSpread * destPrice,
      direction |-> IF sourcePrice > destPrice THEN "positive" ELSE "negative" ]

getExecutionComplexity(opportunity) ==
    1 + (IF opportunity.type = "triangular" THEN 3 ELSE 0)
      + (IF Includes(opportunity.chains, "ethereum") THEN 1 ELSE 0)
      + (IF Len(opportunity.chains) > 2 THEN 2 ELSE 0)
      + (IF opportunity.arbitrageType = "bridge_arbitrage" THEN 1 ELSE 0)

(* calculateNetProfit(opportunity), in units of 0.001 percent *)
calculateNetProfit(opportunity) ==
    LET netProfit ==
          opportunity.spread
          - (IF Includes(opportunity.chains, "ethereum") THEN EthereumFee ELSE 0)
          - (IF opportunity.type = "triangular" THEN TriangularFee ELSE 0)
          - (IF opportunity.type = "celo_native" THEN CeloNativeFee
             ELSE StandardFee)
    IN RoundDiv(IF netProfit > 0 THEN netProfit ELSE 0, 10)

(* The comparator computes parseFloat(estimatedNet) - score * 0.1 in IEEE-754
   double precision. Neither 0.1 nor most three-decimal values are doubles,
   so the computed score differs from the exact decimal value by a rounding
   error that depends on both operands. ScoreDeviations lists, for the
   estimatedNet values (in units of 0.001) and the complexity scores that
   occur here, the triple <<estimatedNet, complexity, error>> where error is
   (computed double) - (exact value) in units of 1 / (5 * 2^55); e.g.
   0.1 - 2 * 0.1 is the double -0.1 (error -1) and 0.2 - 3 * 0.1 is
   -0.10000000000000003 (error -6). *)
ScoreDeviations ==
    { <<0, 1, -1>>, <<100, 1, 0>>, <<200, 1, 1>>, <<400, 1, 8>>,
      <<450, 1, -4>>, <<500, 1, 4>>, <<550, 1, 12>>,
      <<0, 2, -2>>, <<100, 2, -1>>, <<200, 2, 0>>, <<400, 2, 2>>,
      <<450, 2, 0>>, <<500, 2, -2>>, <<550, 2, 6>>,
      <<0, 3, -8>>, <<100, 3, -7>>, <<200, 3, -6>>, <<400, 3, -4>>,
      <<450, 3, -6>>, <<500, 3, -8>>, <<550, 3, 0>>,
      <<0, 7, -12>>, <<100, 7, -16>>, <<200, 7, 0>>, <<400, 7, -8>>,
      <<450, 7, -10>>, <<500, 7, -12>>, <<550, 7, -4>> }

FloatDeviation(estimatedNet, complexity) ==
    (CHOOSE t \in ScoreDeviations : t[1] = estimatedNet /\ t[2] = complexity)[3]

(* the score of the comparator, from an enriched opportunity's own fields:
   the exact value in units of 0.001, scaled by ScoreUnit, plus the rounding
   error of the double arithmetic (always far below one unit of 0.001), so
   that the integer order of the result is the order of the doubles *)
OpportunityScore_NetOnly(e) == e.estimatedNet * ScoreUnit

OpportunityScore(e) ==
    (e.estimatedNet - 100 * e.complexity) * ScoreUnit
    + FloatDeviation(e.estimatedNet, e.complexity)

(* a query flag as the handler reads it: the default true when absent,
   otherwise the string of the query, falsy only when empty *)
Truthy(flag) == flag # ""

(* the opportunities kept by the handler's filters, in input order; each
   keeps the position it had in the scan result *)
RECURSIVE FilterOpportunities(_, _, _, _, _)
FilterOpportunities(opps, from, minProfit, includeCelo, includeTriangular) ==
    IF from > Len(opps) THEN << >>
    ELSE LET opp == opps[from]
             keep == /\ opp.spread >= minProfit
                     /\ (Truthy(includeCelo) \/ ~Includes(opp.chains, "celo"))
                     /\ (Truthy(includeTriangular) \/ opp.type # "triangular")
             rest == FilterOpportunities(opps, from + 1, minProfit,
                                         includeCelo, includeTriangular)
         IN IF keep THEN << [opp |-> opp, idx |-> from] >> \o rest ELSE rest

(* the enrichment and the sort of GET /scan-opportunities *)
RankOpportunities(opps, minProfit, includeCelo, includeTriangular) ==
    LET filtered == FilterOpportunities(opps, 1, minProfit,
                                        includeCelo, includeTriangular)
        Enrich(f) ==
            LET e == [idx |-> f.idx, type |-> f.opp.type,
                      chains |-> f.opp.chains, spread |-> f.opp.spread,
                      complexity |-> getExecutionComplexity(f.opp),
                      estimatedNet |-> calculateNetProfit(f.opp)]
            IN [idx |-> e.idx, type |-> e.type, chains |-> e.chains,
                spread |-> e.spread, complexity |-> e.complexity,
                estimatedNet |-> e.estimatedNet, key |-> OpportunityScore(e)]
    IN SortDesc([i \in DOMAIN filtered |-> Enrich(filtered[i])])

(* the sequences of at most n opportunities *)
OpportunityLists(n) == UNION {[1..k -> OpportunityInputs] : k \in 0..n}

(* one run of scanCrossChainPair *)
ScanCrossChainPair ==
    /\ UNCHANGED regVars
    /\ UNCHANGED <<env, trade, calls>>
    /\ scan.op = "none"
    /\ \E pairConfig \in crossChainPairs :
        LET chainSet == {pairConfig.chains[i] : i \in DOMAIN pairConfig.chains}
        IN \E provided \in [chainSet -> PriceOutcomes] :
           \E fallback \in [chainSet -> 9995..10005] :
             /\ \A c \in chainSet :
                   fallback[c] \in (IF provided[c] = 0 THEN FallbackPrices(c)
                                    ELSE {10000})
             /\ LET prices == [c \in chainSet |->
                                 getChainPrice(provided[c], fallback[c])]
                IN scan' = [op |-> "scanPair", chains |-> pairConfig.chains,
                            provided |-> provided, prices |-> prices,
                            result |-> scanCrossChainPair(pairConfig, prices)]

(* one run of checkCrossChainSpread *)
CheckCrossChainSpread ==
    /\ UNCHANGED regVars
    /\ UNCHANGED <<env, trade, calls>>
    /\ scan.op = "none"
    /\ \E sourcePrice \in PriceInputs, destPrice \in PriceInputs,
          minSpread \in CheckMinSpreadInputs :
        scan' = [op |-> "checkSpread", sourcePrice |-> sourcePrice,
                 destPrice |-> destPrice, minSpread |-> minSpread,
                 result |-> checkCrossChainSpread(sourcePrice, destPrice, minSpread)]

(* GET /scan-opportunities, given what scanForArbitrageOpportunities found.
   chainFilter is left at its default (no filter). *)
ScanOpportunities ==
    /\ UNCHANGED regVars
    /\ UNCHANGED <<env, trade, calls>>
    /\ scan.op = "none"
    /\ \E opps \in OpportunityLists(MaxOpportunities),
          minProfit \in MinProfitInputs,
          includeCelo \in QueryFlagInputs, includeTriangular \in QueryFlagInputs :
        scan' = [op |-> "rank", input |-> opps,
                 ranked |-> RankOpportunities(opps, minProfit,
                                              includeCelo, includeTriangular)]

(* what getCurrentDEXPrices reports as the spread of an ETH-SUI pair *)
DEXSpreadInputs == {2000, 3000, 4200, 5000, 12000}

(* toFixed(2) of prices.spread * 0.7 - 0.3, in units of 0.01 percent; the
   value is not clamped, and toFixed rounds the magnitude of a negative one *)
netProfitPercent(spread) ==
    LET v == 7 * spread - 30000
    IN IF v >= 0 THEN RoundDiv(v, 1000) ELSE 0 - RoundDiv(0 - v, 1000)

(* one ETH-SUI pair of scanForArbitrageOpportunities: the opportunity pushed
   when the spread reaches the minimum profit, nothing otherwise *)
ScanEthSuiPair ==
    /\ UNCHANGED regVars
    /\ UNCHANGED <<env, trade, calls>>
    /\ scan.op = "none"
    /\ \E spread \in DEXSpreadInputs :
        scan' = [op |-> "ethSui", spread |-> spread,
                 found |-> (spread >= SAFETY_LIMITS.minProfitPercent * 100),
                 netProfitPercent |-> netProfitPercent(spread)]

(* the spread check and the plan construction of POST /bidirectional-real
   for a supported pair and a fully connected wallet session, given the two
   prices checkCrossChainSpread drew; no plan is built when the spread does
   not meet the threshold *)
PlanBilateralSwap ==
    /\ UNCHANGED regVars
    /\ UNCHANGED <<env, trade, calls>>
    /\ scan.op = "none"
    /\ \E swapPair \in supportedPairs,
          sourcePrice \in PriceInputs, destPrice \in PriceInputs,
          minSpread \in CheckMinSpreadInputs :
        LET walletSession == [evmAddress |-> TRUE, suiAddress |-> TRUE,
                              celoAddress |-> FALSE]
            spreadCheck == checkCrossChainSpread(sourcePrice, destPrice, minSpread)
        IN scan' = [op |-> "plan", fromChain |-> swapPair.from,
                    toChain |-> swapPair.to, via |-> swapPair.via,
                    sourcePrice |-> sourcePrice, destPrice |-> destPrice,
                    spreadCheck |-> spreadCheck,
                    steps |-> IF spreadCheck.meetsThreshold
                              THEN createEnhancedExecutionPlan(swapPair.from,
                                       swapPair.to, walletSession,
                                       swapPair.via).steps
                              ELSE << >>]

(* the routes and token lists of the multi-chain requests *)
MultiChainRouteInputs ==
    { [chains |-> <<"ethereum", "sui", "celo">>, tokens |-> <<"USDC", "USDC", "cUSD">>],
      [chains |-> <<"ethereum", "celo", "sui">>, tokens |-> <<"USDC", "cUSD", "USDC">>],
      [chains |-> <<"celo", "sui", "ethereum">>, tokens |-> <<"cUSD", "USDT", "USDC">>],
      [chains |-> <<"ethereum", "celo">>,        tokens |-> <<"USDC", "cUSD">>] }

(* generateMultiChainSteps(chains, tokens): the steps shown for a route *)
generateMultiChainSteps(chains, tokens) ==
    [index \in DOMAIN chains |->
        [step |-> index, chain |-> chains[index], token |-> tokens[index],
         action |-> IF index = 1 THEN "SELL"
                    ELSE IF index = Len(chains) THEN "BUY" ELSE "SWAP"]]

(* the swaps executeTriangularArbitrage issues for a 3-chain route, in the
   order of its statements: each on its own chain, from one token of the
   list to the next, the third back to the first *)
executeTriangularArbitrage(chains, tokens) ==
    << [chain |-> chains[1], from |-> tokens[1], to |-> tokens[2]],
       [chain |-> chains[2], from |-> tokens[2], to |-> tokens[3]],
       [chain |-> chains[3], from |-> tokens[3], to |-> tokens[1]] >>

(* the plan of a multi-chain route as the simulation of
   POST /execute-enhanced-arbitrage reports it, and the swaps the executor
   would issue for it *)
PlanMultiChainRoute ==
    /\ UNCHANGED regVars
    /\ UNCHANGED <<env, trade, calls>>
    /\ scan.op = "none"
    /\ \E route \in MultiChainRouteInputs :
        scan' = [op |-> "multiChain", chains |-> route.chains,
                 tokens |-> route.tokens,
                 steps |-> generateMultiChainSteps(route.chains, route.tokens),
                 hops |-> IF Len(route.chains) = 3
                          THEN executeTriangularArbitrage(route.chains, route.tokens)
                          ELSE << >>]

(* the evaluation has answered; the next one starts afresh *)
ScanReturn ==
    /\ UNCHANGED regVars
    /\ UNCHANGED <<env, trade, calls>>
    /\ scan.op # "none"
    /\ scan' = NoScan

NextScan ==
    \/ ScanCrossChainPair
    \/ CheckCrossChainSpread
    \/ ScanOpportunities
    \/ ScanEthSuiPair
    \/ PlanBilateralSwap
    \/ PlanMultiChainRoute
    \/ ScanReturn

ScanSpec == Init /\ [][NextScan]_vars

(* ------------------------------ claims -------------------------------- *)

PlanSteps(id) == swapStates[id].executionPlan.steps

(* no step of the plan has been reported since the plan was created *)
NoStepReported(id) ==
    \A i \in DOMAIN PlanSteps(id) : i > 1 => PlanSteps(id)[i].status = "PENDING"

(* the swap calls of the current execution, in the order they returned *)
SwapCalls == SelectSeq(calls, LAMBDA c : c.cap = "swap")

(* C1: a status query made after the timelock of a swap none of whose steps
   was reported answers status EXPIRED and canRefund true, whatever options
   the swap was created with. *)
C1_LateQueryReportsExpired ==
    ( /\ resp.op \in {"status", "statusBasic"}
      /\ resp.code = 200
      /\ resp.id \in DOMAIN swapStates
      /\ resp.queriedAt > swapStates[resp.id].timelock
      /\ NoStepReported(resp.id) )
    => (resp.status = "EXPIRED" /\ resp.canRefund = "true")

(* C2: EXPIRED and FAILED are terminal: no operation moves a swap that is
   FAILED to EXPIRED, or a swap that is EXPIRED or FAILED to any other
   status. *)
C2_ExpiredFailedTerminal ==
    [][\A id \in DOMAIN swapStates :
          swapStates[id].status \in {"EXPIRED", "FAILED"}
          => swapStates'[id].status = swapStates[id].status]_vars

(* C3: a swap that is COMPLETED stays COMPLETED; a status query after the
   timelock does not move it to EXPIRED. *)
C3_CompletedNotExpired ==
    [][\A id \in DOMAIN swapStates :
          swapStates[id].status = "COMPLETED"
          => swapStates'[id].status = "COMPLETED"]_vars

(* C4: reporting success for each pending step of a new plan, in order and
   before the timelock, ends with status COMPLETED and every step COMPLETED:
   steps are completed in plan order, a COMPLETED swap has every step
   COMPLETED, and a swap whose steps are all COMPLETED and that was last
   written before its timelock is COMPLETED. *)
C4_SuccessPathCompletes ==
    \A id \in DOMAIN swapStates :
        LET s == swapStates[id]
            steps == PlanSteps(id)
            allDone == \A i \in DOMAIN steps : steps[i].status = "COMPLETED"
        IN /\ s.status = "COMPLETED" => allDone
           /\ (allDone /\ s.updatedAt <= s.timelock) => s.status = "COMPLETED"
           /\ \A i \in DOMAIN steps :
                 (i > 1 /\ steps[i].status # "PENDING")
                 => steps[i - 1].status = "COMPLETED"

(* a swap taken through all four pending steps before its timelock *)
C4_Witness ==
    \E id \in DOMAIN swapStates :
        /\ swapStates[id].status = "COMPLETED"
        /\ Len(PlanSteps(id)) = 5
        /\ \A i \in DOMAIN PlanSteps(id) : PlanSteps(id)[i].status = "COMPLETED"
        /\ now <= swapStates[id].timelock
        /\ swapStates[id].timelock > 0

(* C5: the swap of step k+1 is called only after the swap of step k returned
   success; after a step failed no later swap is called. *)
C5_StepsInOrder ==
    /\ \A i \in DOMAIN SwapCalls :
          /\ SwapCalls[i].step = i
          /\ i < Len(SwapCalls) => SwapCalls[i].result = "ok"
    /\ trade.pc = "swap" =>
          /\ Len(SwapCalls) = trade.step - 1
          /\ \A i \in DOMAIN SwapCalls : SwapCalls[i].result = "ok"

(* a three-step route whose second step failed: two swap calls, no third *)
C5_Witness ==
    /\ trade.pc = "done"
    /\ Len(trade.chains) = 3
    /\ Len(SwapCalls) = 2
    /\ SwapCalls[1].result = "ok"
    /\ SwapCalls[2].result = "fail"

(* C6: a failure of any step, the last step of a two-chain or triangular
   route included, makes the overall outcome a failure. *)
C6_AnyStepFailureFails ==
    ( /\ trade.pc = "done"
      /\ \E i \in DOMAIN SwapCalls : SwapCalls[i].result # "ok" )
    => trade.success = "false"

(* C7: the swap of each step is invoked at most once in an execution: a
   failed step is not retried and no reversing swap is issued. *)
C7_EachStepAtMostOnce ==
    /\ \A i, j \in DOMAIN SwapCalls :
          SwapCalls[i].step = SwapCalls[j].step => i = j
    /\ Len(SwapCalls) <= Len(trade.chains)
    /\ \A i \in DOMAIN calls :
          (calls[i].cap = "swap" /\ calls[i].result # "ok")
          => \A j \in DOMAIN calls : j > i => calls[j].cap # "swap"

(* a real trade whose first step failed: one swap call and the trade over *)
C7_Witness ==
    /\ trade.pc = "done"
    /\ trade.kind = "real"
    /\ Len(trade.chains) = 2
    /\ Len(SwapCalls) = 1
    /\ SwapCalls[1].result = "fail"
    /\ trade.success = "false"

(* the rules of the gate other than the amount limit *)
OtherRulesHold ==
    /\ trade.amount > 0
    /\ trade.expectedSpread >= SAFETY_LIMITS.minProfitPercent
    /\ trade.kind = "cross" => Len(trade.chains) \in 2..3

(* C8: a trade whose amount is above the configured maximum is rejected with
   AmountExceedsLimit before any collaborator is called; an amount at or
   below the maximum that satisfies the other rules passes the gate. *)
C8_AmountLimit ==
    /\ trade.amount > SAFETY_LIMITS.maxAmountUSD
       => (calls = << >> /\ trade.pc \in {"idle", "done"}
           /\ trade.success # "true")
    /\ trade.gate # "notreached" =>
          /\ trade.amount > SAFETY_LIMITS.maxAmountUSD
             => (trade.gate = "AmountExceedsLimit"
                 /\ trade.error = "AmountExceedsLimit")
          /\ (trade.amount <= SAFETY_LIMITS.maxAmountUSD /\ OtherRulesHold)
             => trade.gate = "ok"

(* an amount exactly at the default maximum has passed the gate of the trade
   executor *)
C8_Witness ==
    /\ trade.kind = "real"
    /\ trade.caller = "direct"
    /\ trade.amount = SAFETY_LIMITS.maxAmountUSD
    /\ trade.gate = "ok"
    /\ trade.pc = "getWalletBalances"

(* C9: the gate tests the amount rule before the spread rule: a trade that
   breaks both is rejected for its amount, and one that breaks only the
   spread rule is rejected for its spread. *)
C9_AmountBeforeSpread ==
    ( /\ trade.kind = "real"
      /\ trade.gate # "notreached"
      /\ ~trade.dryRun
      /\ trade.expectedSpread < SAFETY_LIMITS.minProfitPercent )
    => IF trade.amount > SAFETY_LIMITS.maxAmountUSD
       THEN trade.gate = "AmountExceedsLimit" /\ trade.error = "AmountExceedsLimit"
       ELSE trade.gate = "SpreadBelowMinimum" /\ trade.error = "SpreadBelowMinimum"

(* a trade over the limit and under the minimum spread, rejected *)
C9_Witness ==
    /\ trade.kind = "real"
    /\ trade.caller = "direct"
    /\ trade.amount > SAFETY_LIMITS.maxAmountUSD
    /\ trade.expectedSpread < SAFETY_LIMITS.minProfitPercent
    /\ trade.expectedSpread > 0
    /\ trade.pc = "done"
    /\ trade.error = "AmountExceedsLimit"

(* C10: an amount of zero or below is rejected before any collaborator is
   called and before any state is created. *)
C10_NonPositiveRejected ==
    /\ (trade.kind # "none" /\ trade.amount <= 0)
       => (trade.pc = "done" /\ trade.success = "false" /\ calls = << >>)
    /\ \A id \in DOMAIN swapStates : swapStates[id].amount > 0

(* a request for a real execution with a positive amount *)
RealMoneyRequest ==
    trade.kind # "none" /\ ~trade.dryRun /\ trade.amount > 0

(* C11: a trade whose maxSlippage is above the configured maxSlippagePercent
   is rejected (SlippageTooHigh) and no collaborator swap is called for it. *)
C11_SlippageTooHigh ==
    (RealMoneyRequest /\ trade.maxSlippage > SAFETY_LIMITS.maxSlippagePercent)
    => ( /\ trade.pc # "swap"
         /\ SwapCalls = << >>
         /\ trade.success # "true"
         /\ trade.pc = "done" => trade.error # "" )

(* the route names 2 or 3 pairwise distinct ledgers *)
ValidRoute(chains) ==
    /\ Len(chains) \in 2..3
    /\ \A i, j \in DOMAIN chains : i # j => chains[i] # chains[j]

(* C12: a multi-chain trade whose ledger list is not 2 or 3 pairwise
   distinct ledgers is rejected (InvalidRoute) before any swap is executed. *)
C12_InvalidRouteRejected ==
    (RealMoneyRequest /\ trade.kind = "cross" /\ ~ValidRoute(trade.chains))
    => (trade.pc = "done" /\ trade.success = "false" /\ SwapCalls = << >>)

(* C13: every SwapState in the registry comes from a request that passes the
   Safety Gate: its amount is above 0 and at most the maximum trade amount. *)
C13_StoredSwapsPassedGate ==
    \A id \in DOMAIN swapStates :
        /\ swapStates[id].amount > 0
        /\ swapStates[id].amount <= SAFETY_LIMITS.maxAmountUSD

(* C14: a swap-creation request rejected at validation time (unsupported
   direction, unknown session, missing wallet, insufficient spread) leaves
   the registry unchanged. *)
C14_RejectedCreationStoresNothing ==
    [][( /\ resp'.op = "create"
         /\ resp'.code = 400
         /\ (resp' # resp \/ nextId' # nextId) )
       => swapStates' = swapStates]_vars

(* a creation rejected for insufficient spread, after its id was drawn, with
   nothing in the registry *)
C14_Witness ==
    /\ resp.op = "create"
    /\ resp.code = 400
    /\ resp.error = "Insufficient spread"
    /\ nextId = 1
    /\ swapStates = << >>

(* C15: on every non-simulated execution path, a spread re-measured below
   80% of the expected spread rejects the trade with SpreadDegraded and no
   swap is called; a re-measured spread of 80% or more is not rejected for
   degradation.  So a swap is only ever issued after a re-measurement that
   was not degraded. *)
C15_SpreadDegradedRejected ==
    /\ (trade.currentSpread # -1
         /\ 10 * trade.currentSpread < 8 * trade.expectedSpread)
       => ( /\ trade.pc = "done"
            /\ trade.error = "SpreadDegraded"
            /\ SwapCalls = << >> )
    /\ (trade.currentSpread # -1
         /\ 10 * trade.currentSpread >= 8 * trade.expectedSpread)
       => trade.error # "SpreadDegraded"
    /\ (RealMoneyRequest /\ (trade.pc = "swap" \/ SwapCalls # << >>))
       => ( /\ trade.currentSpread # -1
            /\ 10 * trade.currentSpread >= 8 * trade.expectedSpread )

(* C16: a dry-run execution calls no collaborator and leaves the swap
   registry unchanged; it ends at once with its report. *)
C16_DryRunNoEffects ==
    [][trade'.dryRun
       => ( /\ calls' = << >>
            /\ trade'.pc = "done"
            /\ swapStates' = swapStates )]_vars

(* a dry run through POST /execute-arbitrage that returned its simulation *)
C16_Witness ==
    /\ trade.dryRun
    /\ trade.kind = "real"
    /\ trade.pc = "done"
    /\ trade.success = "true"
    /\ trade.amount > 0
    /\ calls = << >>

(* C17: a dry run goes through the same gate and spread re-check as a real
   execution: a dry run is only simulated (reported successful) if its
   expected spread is at least the minimum profit threshold and the spread
   re-measured for it is at least 80% of the expected spread. *)
C17_DryRunSameGate ==
    ( /\ trade.dryRun
      /\ trade.amount > 0
      /\ trade.pc = "done"
      /\ trade.success = "true" )
    => ( /\ trade.expectedSpread >= SAFETY_LIMITS.minProfitPercent
         /\ trade.currentSpread # -1
         /\ 10 * trade.currentSpread >= 8 * trade.expectedSpread )

(* the largest and the smallest of a non-empty finite set of prices *)
MaxPrice(S) == CHOOSE x \in S : \A y \in S : y <= x

MinPrice(S) == CHOOSE x \in S : \A y \in S : x <= y

(* spread, printed with four decimals, is (hi - lo) / lo * 100 to within
   half a unit of the last printed decimal *)
IsSpreadOf(spread, hi, lo) ==
    2 * Abs(spread * lo - (hi - lo) * SpreadScale) <= lo

(* C18: for every set of positive prices on 2 or 3 distinct ledgers the
   evaluated spread is (max price - min price) / min price * 100 and is not
   negative, the buy ledger holds the minimum price, the sell ledger the
   maximum price, and the two differ whenever the spread is positive. Both
   evaluations of the program are held to it: scanCrossChainPair on the
   results it produces, checkCrossChainSpread on the spread it reports and
   on the threshold decision it takes on the spread it evaluated. *)
C18_SpreadFormula ==
    /\ (scan.op = "scanPair" /\ scan.result.found) =>
          LET r == scan.result
              P == {scan.prices[c] : c \in DOMAIN scan.prices}
          IN /\ IsSpreadOf(r.spread, MaxPrice(P), MinPrice(P))
             /\ r.spread >= 0
             /\ scan.prices[r.buyChain] = MinPrice(P)
             /\ scan.prices[r.sellChain] = MaxPrice(P)
             /\ (r.spread > 0 => r.buyChain # r.sellChain)
    /\ scan.op = "checkSpread" =>
          LET P == {scan.sourcePrice, scan.destPrice}
          IN /\ IsSpreadOf(scan.result.spread, MaxPrice(P), MinPrice(P))
             /\ scan.result.spread >= 0
             /\ scan.result.meetsThreshold <=>
                    (MaxPrice(P) - MinPrice(P)) * SpreadScale
                        >= scan.minSpread * MinPrice(P)

(* C19: when the price provider fails for any ledger of an evaluation, the
   evaluation fails: no default or fabricated price stands in for the
   missing one, and no spread result or opportunity comes out of it. *)
C19_PriceUnavailable ==
    (scan.op = "scanPair" /\ \E c \in DOMAIN scan.provided : scan.provided[c] = 0) =>
        /\ ~scan.result.found
        /\ \A c \in DOMAIN scan.provided :
              scan.provided[c] = 0 => scan.prices[c] = 0

(* the documented score of a ranked entry, exactly, in units of 0.001 *)
ExactScore(e) == e.estimatedNet - 100 * e.complexity

(* the same score as double-precision arithmetic yields it, in the units of
   OpportunityScore *)
ComputedScore(e) ==
    ExactScore(e) * ScoreUnit + FloatDeviation(e.estimatedNet, e.complexity)

(* C20: the ranked opportunity list is in non-increasing order of
   score = estimatedNetProfitPercent - 0.1 * executionComplexity.score, and
   opportunities with equal scores keep their relative input order. *)
C20_RankedByScore ==
    scan.op = "rank" =>
        \A i, j \in DOMAIN scan.ranked :
            i < j =>
                /\ ExactScore(scan.ranked[i]) >= ExactScore(scan.ranked[j])
                /\ (ExactScore(scan.ranked[i]) = ExactScore(scan.ranked[j])
                        => scan.ranked[i].idx < scan.ranked[j].idx)

(* C20 as amended: the ranked list is in non-increasing order of the score
   as computed in double precision (hence of the exact score too), and
   opportunities whose computed scores are equal keep their relative input
   order. *)
C20_RankedByComputedScore ==
    scan.op = "rank" =>
        \A i, j \in DOMAIN scan.ranked :
            i < j =>
                /\ ComputedScore(scan.ranked[i]) >= ComputedScore(scan.ranked[j])
                /\ ExactScore(scan.ranked[i]) >= ExactScore(scan.ranked[j])
                /\ (ComputedScore(scan.ranked[i]) = ComputedScore(scan.ranked[j])
                        => scan.ranked[i].idx < scan.ranked[j].idx)

(* a ranking of three entries in which two entries tie on the computed
   score and an entry has been moved ahead of one that preceded it *)
C20_Witness ==
    /\ scan.op = "rank"
    /\ Len(scan.ranked) = 3
    /\ \E i, j \in DOMAIN scan.ranked :
          /\ i < j
          /\ ComputedScore(scan.ranked[i]) = ComputedScore(scan.ranked[j])
          /\ scan.ranked[i].chains # scan.ranked[j].chains
    /\ \E i, j \in DOMAIN scan.ranked :
          i < j /\ scan.ranked[i].idx > scan.ranked[j].idx

(* C21: every net-profit estimate attached to a scanned opportunity is
   greater than or equal to 0: the netProfitPercent of an ETH-SUI
   opportunity and the estimatedNet of every ranked opportunity. *)
C21_NetProfitNotNegative ==
    /\ (scan.op = "ethSui" /\ scan.found) => scan.netProfitPercent >= 0
    /\ scan.op = "rank" =>
          \A i \in DOMAIN scan.ranked : scan.ranked[i].estimatedNet >= 0

(* C22: for every bilateral native route the plan is exactly five steps in
   this order: SPREAD_VERIFICATION with status COMPLETED, then
   WALLET_PREPARATION, SOURCE_SWAP on the buy (lowest-price) ledger,
   BRIDGE_TRANSFER, and DESTINATION_SWAP on the sell (highest-price) ledger,
   the last four all PENDING. *)
C22_NativePlanShape ==
    (scan.op = "plan" /\ scan.via = "native" /\ scan.spreadCheck.meetsThreshold) =>
        LET steps == scan.steps
            buyLedger == IF scan.sourcePrice < scan.destPrice
                         THEN scan.fromChain ELSE scan.toChain
            sellLedger == IF scan.sourcePrice < scan.destPrice
                          THEN scan.toChain ELSE scan.fromChain
        IN /\ Len(steps) = 5
           /\ [i \in 1..5 |-> steps[i].type] =
                 << "SPREAD_VERIFICATION", "WALLET_PREPARATION", "SOURCE_SWAP",
                    "BRIDGE_TRANSFER", "DESTINATION_SWAP" >>
           /\ steps[1].status = "COMPLETED"
           /\ \A i \in 2..5 : steps[i].status = "PENDING"
           /\ steps[3].chain = buyLedger
           /\ steps[5].chain = sellLedger

(* C23: for every 3-ledger route the plan consists of a completed
   verification step followed by exactly three hop steps, executed in the
   fixed cyclic order ledger1 to ledger2, ledger2 to ledger3, ledger3 back
   to ledger1, each hop tagged with its own ledger and the asset pair of
   that hop. *)
C23_TriangularPlan ==
    (scan.op = "multiChain" /\ Len(scan.chains) = 3) =>
        /\ Len(scan.hops) = 3
        /\ \A k \in 1..3 :
              /\ scan.hops[k].chain = scan.chains[k]
              /\ scan.hops[k].from = scan.tokens[k]
              /\ scan.hops[k].to = scan.tokens[(k % 3) + 1]
        /\ Len(scan.steps) = 4
        /\ scan.steps[1].action = "SPREAD_VERIFICATION"
        /\ \A k \in 1..3 : scan.steps[k + 1].chain = scan.chains[k]

(* C24: planning fails, and no SwapState is stored, whenever the wallet
   session supplies no address for a ledger the route requires; hence every
   plan stored in the registry names a wallet address for both its source
   and its destination ledger (stated of the swaps of a positive amount). *)
C24_StoredPlansNameBothWallets ==
    \A id \in DOMAIN swapStates :
        swapStates[id].amount > 0 =>
        /\ swapStates[id].executionPlan.wallets.fromChain
        /\ swapStates[id].executionPlan.wallets.toChain

Terminal(status) == status \in {"COMPLETED", "FAILED", "EXPIRED"}

(* C25: every swap that has become terminal is eventually removed from the
   registry by the periodic sweep once it has been terminal for longer than
   the retention window. *)
C25_TerminalSwapsSwept ==
    \A id \in 1..MaxSwaps :
        (/\ id \in DOMAIN swapStates
         /\ Terminal(swapStates[id].status)
         /\ now > swapStates[id].timelock + RetentionSeconds)
            ~> (id \notin DOMAIN swapStates)

(* C26: operations on one swap id (creation, status query, lazy expiry)
   never change the stored state of a swap with a different id, under any
   interleaving of concurrent requests: in every step a stored swap stays in
   the registry, and its state changes only if the step is a status query
   on that very id. *)
C26_OtherSwapsUntouched ==
    [][\A id \in DOMAIN swapStates :
          /\ id \in DOMAIN swapStates'
          /\ swapStates'[id] # swapStates[id] =>
                \E r \in inflight' \ inflight : r.kind = "status" /\ r.id = id]_vars

(* two swaps past their timelock, one expired by a query on it and the
   other still as it was created *)
C26_Witness ==
    \E i, j \in DOMAIN swapStates :
        /\ i # j
        /\ swapStates[i].status = "EXPIRED"
        /\ swapStates[j].status = "PLAN_CREATED"
        /\ now > swapStates[j].timelock

(* C27: in every status response, under any interleaving of concurrent
   status queries issued around the timelock instant, a reported status of
   EXPIRED is accompanied by canRefund = true and isExpired = true in the
   same response (stated of swaps created with the atomic components, whose
   responses carry canRefund). *)
C27_ExpiredResponseConsistent ==
    (/\ resp.op = "status"
     /\ resp.code = 200
     /\ resp.status = "EXPIRED"
     /\ swapStates[resp.id].enableAtomicSwap) =>
        /\ resp.isExpired = "true"
        /\ resp.canRefund = "true"

(* C28: a status query on a swap whose timelock has not yet passed is
   read-only: the stored SwapState (status, plan steps, commitment fields
   and updatedAt) is unchanged by the query, by its first half up to the
   awaited spread fetch as by its second half, the response. *)
C28_StatusQueryReadOnly ==
    [][/\ \A r \in inflight' \ inflight :
             (r.kind = "status" /\ now <= swapStates[r.id].timelock)
                 => swapStates'[r.id] = swapStates[r.id]
       /\ (inflight \ inflight' # {}) => swapStates' = swapStates]_vars

(* a query on a swap at its timelock second has been answered, and the swap
   is as it was created *)
C28_Witness ==
    /\ resp.op = "status"
    /\ resp.code = 200
    /\ resp.isExpired = "false"
    /\ resp.id \in DOMAIN swapStates
    /\ resp.queriedAt = swapStates[resp.id].timelock
    /\ swapStates[resp.id].status = "PLAN_CREATED"

(* C29: in every reachable state, every swap present in the registry
   already has an execution plan attached and a status other than CREATED,
   so a status query never observes a swap without a plan. *)
C29_StoredSwapsHavePlan ==
    \A id \in DOMAIN swapStates :
        /\ swapStates[id].status # "CREATED"
        /\ swapStates[id].executionPlan.steps # << >>

(* a creation has just answered 200 for a swap now in the registry *)
C29_Witness ==
    /\ resp.op = "create"
    /\ resp.code = 200
    /\ resp.id \in DOMAIN swapStates
    /\ swapStates[resp.id].status = "PLAN_CREATED"

(* the responses with which an endpoint turns a request away before any
   execution *)
EndpointRejections ==
    {"MissingRequiredFields", "UnsupportedDirection", "InvalidRoute",
     "TokensMismatch", "UnsupportedChain", "MustConfirm",
     "RealTradingNotEnabled", "AmountExceedsLimit"}

(* C30: on both execution endpoints a request that is not a dry run goes past
   the endpoint's checks only if the caller set confirmRealMoney and
   ENABLE_REAL_TRADING is set; otherwise it ends with one of the endpoint's
   rejections and no collaborator swap has been called *)
C30_RealTradingGate ==
    ( /\ trade.caller = "endpoint"
      /\ trade.pc # "idle"
      /\ ~trade.dryRun
      /\ ~(trade.confirmRealMoney /\ env.ENABLE_REAL_TRADING) )
    => /\ trade.pc = "done"
       /\ trade.error \in EndpointRejections
       /\ \A i \in DOMAIN calls : calls[i].cap # "swap"

(* the same statement for /execute-arbitrage alone *)
C30_OnExecuteArbitrage ==
    trade.kind = "real" => C30_RealTradingGate

====
